---- MODULE Spec2Model ----
(***************************************************************************)
(* Execution-lifecycle client of the BaleyUI Python SDK                    *)
(* (packages/python-sdk/baleyui): the transport adapter (_request,         *)
(* _handle_response), the poll-to-completion loop (wait_for_completion),   *)
(* the handle binding of flows.execute / blocks.run, and the event stream  *)
(* generators (stream, stream_async).                                      *)
(*                                                                         *)
(* Text is modelled by its structure: a line is its first six characters   *)
(* (head) and the rest (tail); a text is either raw characters or the      *)
(* serialisation of a JSON document.  Python's None is the record None,    *)
(* an optional value v is Some(v).  A message is the sequence of the       *)
(* string pieces it is formatted from.                                     *)
(***************************************************************************)
EXTENDS Integers, Sequences, FiniteSets, TLC

VARIABLES
    op,          \* the public operation the caller invoked
    pc,          \* position of the call (or of the generator)
    result,      \* what the caller got: nothing yet, a value, or an exception
    lines,       \* stream: the lines the server's body delivers, in order
    opened,      \* stream: the response of the stream-open request
    pos,         \* stream: number of body lines read from the transport
    yielded,     \* stream: the events handed to the consumer, in order
    connOpen,    \* stream: the streaming connection is held open
    timeout,     \* wait: the timeout argument of wait_for_completion (seconds)
    now,         \* wait: the clock (ticks)
    start_time,  \* wait: the start instant recorded by wait_for_completion
    polls,       \* wait: number of GETs issued by the poll loop
    sleeps,      \* wait: number of sleeps of the poll loop
    lastGet,     \* wait: duration of the most recent GET (ticks)
    lastSleep,   \* wait: duration of the most recent sleep (ticks)
    srvStatus,   \* server: the execution's current status
    polled,      \* wait: what the most recent self.get came back with
    status0,     \* server: the status when wait_for_completion was entered
    execution_id,\* wait: the id of the execution being polled
    handle,      \* execute/run: the ExecutionHandle constructed
    args,        \* execute/run: the wait and wait_timeout arguments
    httpOutcome, \* transport: what the HTTP call of _request, get or the POST did
    handles,     \* caller: the handles execute/run returned so far, in order
    used,        \* caller: which of handles has an accessor running (0: none)
    waitArg      \* caller: the timeout argument given to handle.wait

vars == <<op, pc, result, lines, opened, pos, yielded, connOpen, timeout, now,
          start_time, polls, sleeps, lastGet, lastSleep, srvStatus, polled,
          status0, execution_id, handle, args, httpOutcome, handles, used,
          waitArg>>

streamVars == <<lines, opened, pos, yielded, connOpen>>
callerVars == <<handles, used, waitArg>>
waitVars == <<timeout, now, start_time, polls, sleeps, lastGet, lastSleep,
              srvStatus, polled, status0, execution_id, handle, args,
              httpOutcome, callerVars>>

(***************************************************************************)
(* Bounds of the model.                                                    *)
(***************************************************************************)
MaxLines == 3
MaxIndex == 1
MaxTimeout == 2
TicksPerSec == 2
MaxGetTicks == 2
MaxOversleep == 1

(***************************************************************************)
(* Values.                                                                 *)
(***************************************************************************)
None == [none |-> TRUE]
Some(v) == [some |-> v]

JStr(s) == [jt |-> "string", s |-> s]
JNum(n) == [jt |-> "number", n |-> n]
JObj(m) == [jt |-> "object", members |-> m]
JArr == [jt |-> "array"]

\* the text of a JSON document, and a text that is no JSON document
Dumps(doc) == [raw |-> "json", doc |-> doc]
Raw(s) == [raw |-> s]

Ok(v) == [raised |-> FALSE, value |-> v]
Raise(e) == [raised |-> TRUE, error |-> e]

\* exceptions that are not part of the SDK's hierarchy
RawError(cls) == [cls |-> cls]

(***************************************************************************)
(* errors.py                                                               *)
(***************************************************************************)
BaleyUIError(message, status_code, code, details) ==
    [cls |-> "BaleyUIError", message |-> message, status_code |-> status_code,
     code |-> code, details |-> details]

AuthenticationError(message) ==
    [BaleyUIError(message, Some(401), Some("authentication_error"), None)
        EXCEPT !.cls = "AuthenticationError"]

PermissionError(message) ==
    [BaleyUIError(message, Some(403), Some("permission_error"), None)
        EXCEPT !.cls = "PermissionError"]

NotFoundError(resource, resource_id) ==
    [cls |-> "NotFoundError", message |-> <<resource, " not found: ", resource_id>>,
     status_code |-> Some(404), code |-> Some("not_found"), details |-> None,
     resource |-> resource, resource_id |-> resource_id]

ValidationError(message, details) ==
    [BaleyUIError(message, Some(400), Some("validation_error"), details)
        EXCEPT !.cls = "ValidationError"]

RateLimitError(retry_after) ==
    [cls |-> "RateLimitError", message |-> <<"Rate limit exceeded">>,
     status_code |-> Some(429), code |-> Some("rate_limit_error"), details |-> None,
     retry_after |-> retry_after]

TimeoutError(t) ==
    [cls |-> "TimeoutError",
     message |-> <<"Execution timed out after ", ToString(t), "ms">>,
     status_code |-> None, code |-> Some("timeout_error"), details |-> None,
     timeout |-> t]

ConnectionError(message) ==
    [BaleyUIError(message, None, Some("connection_error"), None)
        EXCEPT !.cls = "ConnectionError"]

\* the classes exported by errors.py: the SDK's error taxonomy
Classified == {"BaleyUIError", "AuthenticationError", "PermissionError",
               "NotFoundError", "ValidationError", "RateLimitError",
               "TimeoutError", "ConnectionError"}

(***************************************************************************)
(* json.loads: the document of a JSON text, JSONDecodeError otherwise.     *)
(***************************************************************************)
json_loads(text) ==
    IF text.raw = "json" THEN Ok(text.doc)
    ELSE Raise(RawError("json.JSONDecodeError"))

(***************************************************************************)
(* types.py: ExecutionEvent built from keyword arguments.  A value that  *)
(* is no mapping cannot be unpacked: TypeError.  A mapping is validated   *)
(* by pydantic against the field declarations.                            *)
(***************************************************************************)
IsStr(m, k) == k \in DOMAIN m /\ m[k].jt = "string"
IsInt(m, k) == k \in DOMAIN m /\ m[k].jt = "number"

\* ExecutionEvent with the index counted from the wrong end
ExecutionEvent_IndexFromEnd(event_data) ==
    IF event_data.jt # "object" THEN Raise(RawError("TypeError"))
    ELSE LET m == event_data.members IN
         IF /\ IsStr(m, "type")
            /\ IsStr(m, "executionId")
            /\ IsStr(m, "timestamp")
            /\ IsInt(m, "index")
         THEN Ok([type |-> m.type.s, execution_id |-> m.executionId.s,
                  node_id |-> None, data |-> None,
                  timestamp |-> m.timestamp.s, index |-> MaxIndex - m.index.n])
         ELSE Raise(RawError("pydantic.ValidationError"))

ExecutionEvent(event_data) ==
    IF event_data.jt # "object" THEN Raise(RawError("TypeError"))
    ELSE LET m == event_data.members IN
         IF /\ IsStr(m, "type")
            /\ IsStr(m, "executionId")
            /\ IsStr(m, "timestamp")
            /\ IsInt(m, "index")
         THEN Ok([type |-> m.type.s, execution_id |-> m.executionId.s,
                  node_id |-> None, data |-> None,
                  timestamp |-> m.timestamp.s, index |-> m.index.n])
         ELSE Raise(RawError("pydantic.ValidationError"))

(***************************************************************************)
(* The stream's line protocol.                                             *)
(***************************************************************************)
DataPrefix == "data: "
DoneSentinel == Raw("[DONE]")
TerminalTypes == {"execution_complete", "execution_error"}
EventTypes == {"node_start"} \cup TerminalTypes

startswith(line, prefix) == line.head = prefix
\* line[6:]
Payload(line) == line.tail

DataLine(text) == [head |-> DataPrefix, tail |-> text]

EventDoc(t, i) ==
    JObj([type |-> JStr(t), executionId |-> JStr("exec-1"),
          timestamp |-> JStr("2024-01-01T00:00:00Z"), index |-> JNum(i)])

\* lines that decode into an event
EventLines == {DataLine(Dumps(EventDoc(t, i))) : t \in EventTypes, i \in 0..MaxIndex}

\* significant lines, not the sentinel, that do not decode into an event
NotJsonLine == DataLine(Raw("{type: "))
NotObjectLine == DataLine(Dumps(JNum(5)))
MissingFieldLine ==
    DataLine(Dumps(JObj([executionId |-> JStr("exec-1"),
                         timestamp |-> JStr("2024-01-01T00:00:00Z"),
                         index |-> JNum(0)])))
MistypedFieldLine ==
    DataLine(Dumps(JObj([type |-> JStr("execution_complete"),
                         executionId |-> JStr("exec-1"),
                         timestamp |-> JStr("2024-01-01T00:00:00Z"),
                         index |-> JStr("x")])))
MalformedLines == {NotJsonLine, NotObjectLine, MissingFieldLine, MistypedFieldLine}

DoneLine == DataLine(DoneSentinel)

\* lines that do not start with the data prefix: blank, "data:" without the space
OtherLines == {[head |-> "", tail |-> Raw("")],
               [head |-> "data:{", tail |-> Raw("}")]}

Lines == EventLines \cup MalformedLines \cup {DoneLine} \cup OtherLines

RECURSIVE SeqsUpTo(_, _)
SeqsUpTo(S, n) ==
    IF n = 0 THEN {<<>>}
    ELSE LET shorter == SeqsUpTo(S, n - 1) IN
         shorter \cup {Append(s, x) : s \in {t \in shorter : Len(t) = n - 1}, x \in S}

(***************************************************************************)
(* client.py, ExecutionsAPI.stream / stream_async.                         *)
(***************************************************************************)
HttpResponse(status_code, reason_phrase) ==
    [t |-> "response", status_code |-> status_code, reason_phrase |-> reason_phrase]
ConnectFailure == [t |-> "connect_error"]
NoResponse == [t |-> "none"]

is_success(resp) == 200 <= resp.status_code /\ resp.status_code <= 299

\* what the stream-open request can come back with
StreamResponses == {ConnectFailure, HttpResponse(200, "OK"),
                    HttpResponse(404, "Not Found"),
                    HttpResponse(500, "Internal Server Error")}

\* stream_open with the status check left out
stream_open_NoStatusCheck(resp) ==
    IF resp.t = "connect_error" THEN Raise(RawError("httpx.ConnectError"))
    ELSE Ok(resp)

\* entering the response context and the status check, blocking variant
stream_open(resp) ==
    IF resp.t = "connect_error" THEN Raise(RawError("httpx.ConnectError"))
    ELSE IF ~is_success(resp)
    THEN Raise(BaleyUIError(<<"Failed to stream execution: ", resp.reason_phrase>>,
                            Some(resp.status_code), None, None))
    ELSE Ok(resp)

\* the same, cooperative variant
stream_async_open(resp) ==
    IF resp.t = "connect_error" THEN Raise(RawError("httpx.ConnectError"))
    ELSE IF ~is_success(resp)
    THEN Raise(BaleyUIError(<<"Failed to stream execution: ", resp.reason_phrase>>,
                            Some(resp.status_code), None, None))
    ELSE Ok(resp)

\* the except clause of the loop body catches json.JSONDecodeError only
Caught(e) == e.cls = "json.JSONDecodeError"

Skip == [act |-> "skip"]
Return == [act |-> "return"]
Yield(event) == [act |-> "yield", event |-> event]
Throw(e) == [act |-> "raise", error |-> e]

\* stream_line without the test for the sentinel
stream_line_NoSentinel(line) ==
    IF startswith(line, DataPrefix)
    THEN LET data == Payload(line) IN
         LET event_data == json_loads(data) IN
         IF event_data.raised
         THEN IF Caught(event_data.error) THEN Skip ELSE Throw(event_data.error)
         ELSE LET event == ExecutionEvent(event_data.value) IN
              IF event.raised
              THEN IF Caught(event.error) THEN Skip ELSE Throw(event.error)
              ELSE Yield(event.value)
    ELSE Skip

\* the body of the for loop up to the yield, blocking variant
stream_line(line) ==
    IF startswith(line, DataPrefix)
    THEN LET data == Payload(line) IN
         IF data = DoneSentinel THEN Return
         ELSE LET event_data == json_loads(data) IN
              IF event_data.raised
              THEN IF Caught(event_data.error) THEN Skip ELSE Throw(event_data.error)
              ELSE LET event == ExecutionEvent(event_data.value) IN
                   IF event.raised
                   THEN IF Caught(event.error) THEN Skip ELSE Throw(event.error)
                   ELSE Yield(event.value)
    ELSE Skip

\* stream_async_line taking a line without the data prefix for the end of
\* the stream
stream_async_line_OtherEnds(line) ==
    IF startswith(line, DataPrefix)
    THEN LET data == Payload(line) IN
         IF data = DoneSentinel THEN Return
         ELSE LET event_data == json_loads(data) IN
              IF event_data.raised
              THEN IF Caught(event_data.error) THEN Skip ELSE Throw(event_data.error)
              ELSE LET event == ExecutionEvent(event_data.value) IN
                   IF event.raised
                   THEN IF Caught(event.error) THEN Skip ELSE Throw(event.error)
                   ELSE Yield(event.value)
    ELSE Return

\* the body of the async for loop up to the yield, cooperative variant
stream_async_line(line) ==
    IF startswith(line, DataPrefix)
    THEN LET data == Payload(line) IN
         IF data = DoneSentinel THEN Return
         ELSE LET event_data == json_loads(data) IN
              IF event_data.raised
              THEN IF Caught(event_data.error) THEN Skip ELSE Throw(event_data.error)
              ELSE LET event == ExecutionEvent(event_data.value) IN
                   IF event.raised
                   THEN IF Caught(event.error) THEN Skip ELSE Throw(event.error)
                   ELSE Yield(event.value)
    ELSE Skip

\* the test after the yield with one of the two markers forgotten
stream_after_yield_ErrorOnly(event) == event.type \in {"execution_error"}
stream_async_after_yield_CompleteOnly(event) == event.type \in {"execution_complete"}

\* the statement after the yield: TRUE when the generator returns
stream_after_yield(event) == event.type \in {"execution_complete", "execution_error"}
stream_async_after_yield(event) == event.type \in {"execution_complete", "execution_error"}

StreamOps == {"stream", "stream_async"}

OpenOf(o, resp) == IF o = "stream" THEN stream_open(resp) ELSE stream_async_open(resp)
LineOf(o, line) == IF o = "stream" THEN stream_line(line) ELSE stream_async_line(line)
AfterYieldOf(o, event) ==
    IF o = "stream" THEN stream_after_yield(event) ELSE stream_async_after_yield(event)

NoResult == [kind |-> "none"]
Returned == [kind |-> "return"]
ReturnedValue(v) == [kind |-> "return", value |-> v]
Raised(e) == [kind |-> "raise", error |-> e]

\* The consumer's first pull: the generator body starts, the request is sent,
\* the status is checked.  Leaving the with block on an exception releases
\* the connection.
StreamFirstPull ==
    /\ op \in StreamOps /\ pc = "created"
    /\ \E resp \in StreamResponses :
         LET r == OpenOf(op, resp) IN
         /\ opened' = resp
         /\ IF r.raised
            THEN /\ pc' = "raised"
                 /\ result' = Raised(r.error)
                 /\ connOpen' = FALSE
            ELSE /\ pc' = "reading"
                 /\ result' = result
                 /\ connOpen' = TRUE
    /\ UNCHANGED <<op, lines, pos, yielded, waitVars>>

\* iter_lines delivers the next line and the loop body runs up to a yield,
\* a return, an exception, or the next iteration
StreamReadLine ==
    /\ op \in StreamOps /\ pc = "reading"
    /\ pos < Len(lines)
    /\ pos' = pos + 1
    /\ LET r == LineOf(op, lines[pos + 1]) IN
         CASE r.act = "skip" ->
                /\ UNCHANGED <<pc, result, yielded, connOpen>>
           [] r.act = "yield" ->
                /\ yielded' = Append(yielded, r.event)
                /\ pc' = "yielded"
                /\ UNCHANGED <<result, connOpen>>
           [] r.act = "return" ->
                /\ pc' = "done"
                /\ result' = Returned
                /\ connOpen' = FALSE
                /\ UNCHANGED yielded
           [] r.act = "raise" ->
                /\ pc' = "raised"
                /\ result' = Raised(r.error)
                /\ connOpen' = FALSE
                /\ UNCHANGED yielded
    /\ UNCHANGED <<op, lines, opened, waitVars>>

\* the server closed the body: the for loop ends and the generator returns
StreamEndOfBody ==
    /\ op \in StreamOps /\ pc = "reading"
    /\ pos = Len(lines)
    /\ pc' = "done"
    /\ result' = Returned
    /\ connOpen' = FALSE
    /\ UNCHANGED <<op, lines, opened, pos, yielded, waitVars>>

\* the transport fails while the next line is awaited; nothing in the
\* generator handles it
StreamReadError ==
    /\ op \in StreamOps /\ pc = "reading"
    /\ pc' = "raised"
    /\ result' = Raised(RawError("httpx.ReadError"))
    /\ connOpen' = FALSE
    /\ UNCHANGED <<op, lines, opened, pos, yielded, waitVars>>

\* the consumer pulls again: the generator resumes after the yield
StreamResume ==
    /\ op \in StreamOps /\ pc = "yielded"
    /\ IF AfterYieldOf(op, yielded[Len(yielded)])
       THEN /\ pc' = "done"
            /\ result' = Returned
            /\ connOpen' = FALSE
       ELSE /\ pc' = "reading"
            /\ UNCHANGED <<result, connOpen>>
    /\ UNCHANGED <<op, lines, opened, pos, yielded, waitVars>>

\* closing the generator without the with block around the yield: nothing
\* releases the connection
StreamAbandon_Leak ==
    /\ op \in StreamOps /\ pc = "yielded"
    /\ pc' = "closed"
    /\ UNCHANGED <<op, result, lines, opened, pos, yielded, connOpen, waitVars>>

\* the consumer stops pulling and closes the generator: GeneratorExit is
\* raised at the yield and unwinds the with block
StreamAbandon ==
    /\ op \in StreamOps /\ pc = "yielded"
    /\ pc' = "closed"
    /\ connOpen' = FALSE
    /\ UNCHANGED <<op, result, lines, opened, pos, yielded, waitVars>>

\* no handle exists and no accessor of a handle has been called
CallerIdle == handles = <<>> /\ used = 0 /\ waitArg = None

WaitIdle ==
    /\ CallerIdle /\ httpOutcome = NoResponse
    /\ timeout = 0 /\ now = 0 /\ start_time = 0 /\ polls = 0 /\ sleeps = 0
    /\ lastGet = 0 /\ lastSleep = 0 /\ srvStatus = "pending"
    /\ polled = None /\ status0 = "" /\ execution_id = ""
    /\ handle = None /\ args = None

InitStream ==
    /\ op \in StreamOps
    /\ pc = "created"
    /\ result = NoResult
    /\ lines \in SeqsUpTo(Lines, MaxLines)
    /\ opened = NoResponse
    /\ pos = 0
    /\ yielded = <<>>
    /\ connOpen = FALSE
    /\ WaitIdle

NextStream ==
    \/ StreamFirstPull
    \/ StreamReadLine
    \/ StreamEndOfBody
    \/ StreamReadError
    \/ StreamResume
    \/ StreamAbandon

SpecStream == InitStream /\ [][NextStream]_vars

(***************************************************************************)
(* client.py, the transport adapter.  An HTTP outcome is what the          *)
(* underlying client.request call does: it raises a transport exception    *)
(* or returns a response (status, reason phrase, body text, Retry-After).  *)
(***************************************************************************)
DEFAULT_TIMEOUT == 30
DEFAULT_WAIT_TIMEOUT == 300

ConnectErrorOutcome == [t |-> "connect_error", message |-> "connection refused"]
TimeoutOutcome == [t |-> "timeout"]
\* a transport failure that is neither a connect error nor a timeout
ReadErrorOutcome == [t |-> "transport_error", cls |-> "httpx.ReadError"]

Response(status_code, reason_phrase, body, retry_after) ==
    [t |-> "response", status_code |-> status_code, reason_phrase |-> reason_phrase,
     body |-> body, retry_after |-> retry_after]

StatusCodes == {400, 401, 403, 404, 429, 500}

ReasonPhrase(code) ==
    CASE code = 200 -> "OK"
      [] code = 400 -> "Bad Request"
      [] code = 401 -> "Unauthorized"
      [] code = 403 -> "Forbidden"
      [] code = 404 -> "Not Found"
      [] code = 429 -> "Too Many Requests"
      [] OTHER -> "Internal Server Error"

NotJsonBody == Raw("<html>")
ArrayBody == Dumps(JArr)
ErrorBody ==
    Dumps(JObj([error |-> JStr("server message"), details |-> JStr("server details")]))
PlainBody == Dumps(JObj([request_id |-> JStr("req-1")]))
ErrorBodies == {ErrorBody, PlainBody, NotJsonBody, ArrayBody}

\* Retry-After header values: absent, empty, seconds, an HTTP date
RetryAfterValues == {None, Some(""), Some("0"), Some("120"),
                     Some("Wed, 21 Oct 2015 07:28:00 GMT")}

ErrorResponses ==
    {Response(c, ReasonPhrase(c), b, None) : c \in StatusCodes, b \in ErrorBodies}
    \cup {Response(429, ReasonPhrase(429), ErrorBody, h) : h \in RetryAfterValues}

TransportFailures == {ConnectErrorOutcome, TimeoutOutcome, ReadErrorOutcome}

\* int(s) for the header strings above
int(s) ==
    CASE s = "0" -> Ok(0)
      [] s = "120" -> Ok(120)
      [] OTHER -> Raise(RawError("ValueError"))

\* truth value of an optional string
Truthy(o) == o # None /\ o.some # ""

\* dict.get(key, default) on the members of a JSON object
dict_get(m, key, default) == IF key \in DOMAIN m THEN m[key] ELSE default

EmptyDict == [k \in {} |-> None]

\* a JSON string as a message
Message(v) == <<v.s>>

_handle_response(response) ==
    IF is_success(response)
    THEN json_loads(response.body)
    ELSE LET decoded == json_loads(response.body)
             error_data == IF decoded.raised THEN JObj(EmptyDict) ELSE decoded.value
         IN
         IF error_data.jt # "object" THEN Raise(RawError("AttributeError"))
         ELSE LET message == Message(dict_get(error_data.members, "error",
                                              JStr(response.reason_phrase)))
                  d == dict_get(error_data.members, "details", None)
                  details == IF d = None THEN None ELSE Some(d.s)
              IN
              CASE response.status_code = 401 -> Raise(AuthenticationError(message))
                [] response.status_code = 403 -> Raise(PermissionError(message))
                [] response.status_code = 404 ->
                       Raise(NotFoundError("Resource", "unknown"))
                [] response.status_code = 400 -> Raise(ValidationError(message, details))
                [] response.status_code = 429 ->
                       LET retry_after == response.retry_after IN
                       IF Truthy(retry_after)
                       THEN LET n == int(retry_after.some) IN
                            IF n.raised THEN n ELSE Raise(RateLimitError(Some(n.value)))
                       ELSE Raise(RateLimitError(None))
                [] OTHER ->
                       Raise(BaleyUIError(message, Some(response.status_code),
                                          Some("api_error"), details))

_request(outcome) ==
    CASE outcome.t = "connect_error" -> Raise(ConnectionError(<<outcome.message>>))
      [] outcome.t = "timeout" -> Raise(TimeoutError(DEFAULT_TIMEOUT * 1000))
      [] outcome.t = "transport_error" -> Raise(RawError(outcome.cls))
      [] OTHER -> _handle_response(outcome)

(***************************************************************************)
(* types.py: Execution built from keyword arguments, and ExecutionsAPI.get *)
(***************************************************************************)
Statuses == {"pending", "running", "completed", "failed", "cancelled"}
TerminalStatuses == {"completed", "failed", "cancelled"}

Execution(data) ==
    IF data.jt # "object" THEN Raise(RawError("TypeError"))
    ELSE LET m == data.members IN
         IF /\ IsStr(m, "id")
            /\ IsStr(m, "status") /\ m.status.s \in Statuses
            /\ IsStr(m, "createdAt")
         THEN Ok([id |-> m.id.s, status |-> m.status.s, created_at |-> m.createdAt.s])
         ELSE Raise(RawError("pydantic.ValidationError"))

get(outcome) ==
    LET response == _request(outcome) IN
    IF response.raised THEN response
    ELSE IF response.value.jt # "object" THEN Raise(RawError("AttributeError"))
    ELSE Execution(dict_get(response.value.members, "execution", response.value))

\* the server's snapshot of execution id with the given status
SnapshotDoc(id, status) ==
    JObj([id |-> JStr(id), status |-> JStr(status),
          createdAt |-> JStr("2024-01-01T00:00:00Z")])

\* what GET /executions/<id> can come back with while the server holds status
GetOutcomes(id, status) ==
    TransportFailures \cup ErrorResponses
    \cup {Response(200, "OK", b, None) :
            b \in {Dumps(SnapshotDoc(id, status)),
                   Dumps(JObj([execution |-> SnapshotDoc(id, status)])),
                   Dumps(SnapshotDoc(id, "paused")),
                   NotJsonBody, ArrayBody}}

\* the ids the server gives to new executions, in the order it issues them:
\* two executions, to tell a handle from one created before or after it
ExecutionIdSeq == <<"exec-1", "exec-2">>
ExecutionIds == {ExecutionIdSeq[k] : k \in DOMAIN ExecutionIdSeq}

\* response o of a POST, if it reports a new execution, reports id
Issues(o, id) ==
    (o.t = "response" /\ is_success(o) /\ o.body.raw = "json"
     /\ o.body.doc.jt = "object" /\ "executionId" \in DOMAIN o.body.doc.members)
        => o.body.doc.members.executionId.s = id

\* what POST /flows/<id>/execute and POST /blocks/<id>/run can come back with
PostOutcomes ==
    TransportFailures \cup ErrorResponses
    \cup {Response(200, "OK", Dumps(JObj([executionId |-> JStr(id)])), None) :
            id \in ExecutionIds}
    \cup {Response(200, "OK", b, None) : b \in {PlainBody, NotJsonBody, ArrayBody}}

(***************************************************************************)
(* What a stream is expected to deliver, stated on the lines themselves.   *)
(***************************************************************************)
Event(t, i) ==
    [type |-> t, execution_id |-> "exec-1", node_id |-> None, data |-> None,
     timestamp |-> "2024-01-01T00:00:00Z", index |-> i]

EventLine(t, i) == DataLine(Dumps(EventDoc(t, i)))

\* the event an event line carries
EventIn(line) ==
    CHOOSE e \in {Event(t, i) : t \in EventTypes, i \in 0..MaxIndex} :
        line = EventLine(e.type, e.index)

TerminalLines == {EventLine(t, i) : t \in TerminalTypes, i \in 0..MaxIndex}
CompletionLines == {EventLine("execution_complete", i) : i \in 0..MaxIndex}
ProgressLines == EventLines \ TerminalLines

\* the events of the event lines of ls, in order
EventsOf(ls) ==
    LET evs == SelectSeq(ls, LAMBDA l : l \in EventLines) IN
    [j \in 1..Len(evs) |-> EventIn(evs[j])]

IsPrefix(s, t) == Len(s) <= Len(t) /\ \A j \in 1..Len(s) : s[j] = t[j]

Last(s) == s[Len(s)]

\* a line is read from the transport in this step
Reads == pc = "reading" /\ pos < Len(lines) /\ pos' = pos + 1

\* C1: a significant line, not the sentinel, whose payload does not decode
\* into an ExecutionEvent (not JSON, JSON but no object, an object with a
\* required field missing or mistyped) is skipped silently: reading it yields
\* no event, raises nothing, and leaves the generator reading.
C1_MalformedLineSkipped ==
    [][(Reads /\ lines[pos + 1] \in MalformedLines)
          => (pc' = "reading" /\ result' = NoResult /\ yielded' = yielded
              /\ connOpen')]_vars

\* the first k lines are progress events and insignificant lines, line k is
\* a completion event
WellFormedTo(k) ==
    /\ k \in 1..Len(lines)
    /\ lines[k] \in CompletionLines
    /\ \A j \in 1..(k - 1) : lines[j] \in ProgressLines \cup OtherLines

\* C2: for a well-formed stream e1..en followed by a completion event and
\* then any further lines, the sequence produced is always a prefix of
\* e1..en plus the completion event, no line after the completion event is
\* read, and a stream that ended normally produced exactly that sequence.
C2_StreamSequence ==
    \A k \in 1..Len(lines) :
        WellFormedTo(k) =>
            /\ IsPrefix(yielded, EventsOf(SubSeq(lines, 1, k)))
            /\ pos <= k
            /\ (pc = "done" => /\ yielded = EventsOf(SubSeq(lines, 1, k))
                               /\ result = Returned)

C2_Witness ==
    /\ pc = "done"
    /\ \E k \in 1..Len(lines) : WellFormedTo(k) /\ k < Len(lines)
    /\ Len(yielded) >= 2
    /\ Last(yielded).type = "execution_complete"

TerminalYielded == yielded # <<>> /\ Last(yielded).type \in TerminalTypes

\* C3: a decoded completion or error event is yielded first (the connection
\* still open), and from then on no further line is read and nothing more is
\* yielded: the generator's next step ends it and releases the connection.
C3_TerminalEventEndsStream ==
    [][/\ (Reads /\ lines[pos + 1] \in TerminalLines)
            => (/\ yielded' = Append(yielded, EventIn(lines[pos + 1]))
                /\ pc' = "yielded" /\ connOpen')
       /\ TerminalYielded
            => (/\ pos' = pos /\ yielded' = yielded
                /\ pc' \in {"done", "closed"} /\ ~connOpen')]_vars

C3_Witness ==
    /\ pc = "done" /\ result = Returned /\ ~connOpen
    /\ yielded # <<>> /\ Last(yielded).type = "execution_error"
    /\ pos < Len(lines)

\* C4: once the sentinel line is read the stream has ended normally: exactly
\* the events of the lines before it were yielded, the sentinel yielded
\* nothing, the connection is released, and no line after it is read.
C4_SentinelEndsStream ==
    /\ (pos > 0 /\ lines[pos] = DoneLine)
          => /\ pc = "done" /\ result = Returned /\ ~connOpen
             /\ yielded = EventsOf(SubSeq(lines, 1, pos - 1))
    /\ \A j \in 1..(pos - 1) : lines[j] # DoneLine

C4_Witness ==
    /\ pos > 0 /\ lines[pos] = DoneLine
    /\ pc = "done"
    /\ Len(yielded) >= 1
    /\ pos < Len(lines)

(***************************************************************************)
(* client.py, ExecutionsAPI.wait_for_completion and the handle binding of  *)
(* FlowsAPI.execute / BlocksAPI.run.  Time is counted in ticks,            *)
(* TicksPerSec ticks to the second.                                        *)
(***************************************************************************)
poll_interval == 1 * TicksPerSec

\* the timeouts a caller passes (seconds)
Timeouts == 0..MaxTimeout

\* the loop condition with <= for <
within_deadline_Inclusive(t, start, limit) == t - start <= limit * TicksPerSec

\* the loop condition: time.time() - start_time < timeout
within_deadline(t, start, limit) == t - start < limit * TicksPerSec

\* the status test with a terminal status forgotten
is_terminal_NoCancelled(e) == e.status \in {"completed", "failed"}

\* the status test taking a running execution for a finished one
is_terminal_AnyStarted(e) == e.status # "pending"

\* the status test of the loop body
is_terminal(e) == e.status \in {"completed", "failed", "cancelled"}

\* the loop body with a failed poll swallowed and retried after the sleep
wait_iteration_Retry(r) ==
    IF r.raised THEN [act |-> "sleep", value |-> None]
    ELSE IF r.value.status \in {"completed", "failed", "cancelled"}
    THEN [act |-> "return", value |-> r.value]
    ELSE [act |-> "sleep", value |-> r.value]

\* one iteration of the loop body, given what self.get came back with
wait_iteration(r) ==
    IF r.raised THEN Throw(r.error)
    ELSE IF is_terminal(r.value) THEN [act |-> "return", value |-> r.value]
    ELSE [act |-> "sleep", value |-> r.value]

\* Python's "a or b" on an optional number
PyOr(a, b) == IF a = None THEN b ELSE IF a.some = 0 THEN b ELSE a.some

\* the closure testing its argument for None only
handle_wait_timeout_NoneOnly(t, wait_timeout) ==
    IF t = None THEN wait_timeout ELSE t.some

\* the closure bound as the handle's wait_for_completion
handle_wait_timeout(t, wait_timeout) == PyOr(t, wait_timeout)

\* the wait argument ignored
waits_before_return_Never(wait) == FALSE

\* the "if wait:" of execute and run
waits_before_return(wait) == wait

\* response["executionId"] on the parsed body of the POST
executionId_of(body) ==
    IF body.jt # "object" THEN Raise(RawError("TypeError"))
    ELSE IF "executionId" \notin DOMAIN body.members THEN Raise(RawError("KeyError"))
    ELSE Ok(body.members.executionId.s)

WaitOps == {"wait_for_completion", "execute", "run"}
CallOps == WaitOps \cup {"get", "_request"}

StreamIdle ==
    /\ lines = <<>> /\ opened = NoResponse /\ pos = 0 /\ yielded = <<>>
    /\ connOpen = FALSE

\* the caller invokes _request directly
Request ==
    /\ op = "_request" /\ pc = "call"
    /\ \E o \in PostOutcomes \cup GetOutcomes(execution_id, srvStatus) :
         LET r == _request(o) IN
         /\ httpOutcome' = o
         /\ result' = IF r.raised THEN Raised(r.error) ELSE ReturnedValue(r.value)
         /\ pc' = IF r.raised THEN "raised" ELSE "returned"
    /\ UNCHANGED <<op, streamVars, timeout, now, start_time, polls, sleeps, lastGet,
                   lastSleep, srvStatus, polled, status0, execution_id, handle, args,
                   callerVars>>

\* the caller invokes executions.get
Get ==
    /\ op = "get" /\ pc = "call"
    /\ \E o \in GetOutcomes(execution_id, srvStatus) :
         LET r == get(o) IN
         /\ httpOutcome' = o
         /\ result' = IF r.raised THEN Raised(r.error) ELSE ReturnedValue(r.value)
         /\ pc' = IF r.raised THEN "raised" ELSE "returned"
    /\ UNCHANGED <<op, streamVars, timeout, now, start_time, polls, sleeps, lastGet,
                   lastSleep, srvStatus, polled, status0, execution_id, handle, args,
                   callerVars>>

\* execute / run: the POST, the handle, and the call of handle.wait
ExecutePost ==
    /\ op \in {"execute", "run"} /\ pc = "call"
    /\ Len(handles) < Len(ExecutionIdSeq)
    /\ \E o \in {x \in PostOutcomes : Issues(x, ExecutionIdSeq[Len(handles) + 1])},
          d \in 0..MaxGetTicks :
         LET response == _request(o)
             id == IF response.raised THEN response
                   ELSE executionId_of(response.value)
         IN
         /\ now' = now + d
         /\ httpOutcome' = o
         /\ IF id.raised
            THEN /\ pc' = "raised"
                 /\ result' = Raised(id.error)
                 /\ UNCHANGED <<execution_id, handle, timeout>>
            ELSE /\ execution_id' = id.value
                 /\ handle' = [id |-> id.value, wait_timeout |-> args.wait_timeout]
                 /\ IF waits_before_return(args.wait)
                    THEN /\ timeout' = handle_wait_timeout(Some(args.wait_timeout),
                                                           args.wait_timeout)
                         /\ pc' = "wait_call"
                         /\ result' = result
                    ELSE /\ pc' = "returned"
                         /\ result' = ReturnedValue(handle')
                         /\ UNCHANGED timeout
    /\ UNCHANGED <<op, streamVars, start_time, polls, sleeps, lastGet, lastSleep,
                   srvStatus, polled, status0, args, callerVars>>

\* wait_for_completion is entered: the start instant is recorded
WaitEnter ==
    /\ op \in WaitOps /\ pc = "wait_call"
    /\ start_time' = now
    /\ status0' = srvStatus
    /\ pc' = "wait_check"
    /\ UNCHANGED <<op, result, streamVars, timeout, now, polls, sleeps, lastGet,
                   lastSleep, srvStatus, polled, execution_id, handle, args,
                   httpOutcome, callerVars>>

\* leaving the loop with the timeout reported in seconds, not milliseconds
WaitCheck_Seconds ==
    /\ op \in WaitOps /\ pc = "wait_check"
    /\ IF within_deadline(now, start_time, timeout)
       THEN /\ pc' = "wait_get"
            /\ result' = result
       ELSE /\ pc' = "raised"
            /\ result' = Raised(TimeoutError(timeout))
    /\ UNCHANGED <<op, streamVars, waitVars>>

\* the loop condition; when it fails the loop is left and TimeoutError raised
WaitCheck ==
    /\ op \in WaitOps /\ pc = "wait_check"
    /\ IF within_deadline(now, start_time, timeout)
       THEN /\ pc' = "wait_get"
            /\ result' = result
       ELSE /\ pc' = "raised"
            /\ result' = Raised(TimeoutError(timeout * 1000))
    /\ UNCHANGED <<op, streamVars, waitVars>>

\* self.get(execution_id) and the status test
WaitPoll ==
    /\ op \in WaitOps /\ pc = "wait_get"
    /\ \E o \in GetOutcomes(execution_id, srvStatus), d \in 0..MaxGetTicks :
         LET execution == get(o)
             r == wait_iteration(execution)
         IN
         /\ now' = now + d
         /\ lastGet' = d
         /\ polls' = polls + 1
         /\ polled' = execution
         /\ CASE r.act = "raise" ->
                   /\ pc' = "raised"
                   /\ result' = Raised(r.error)
              [] r.act = "return" ->
                   /\ pc' = "returned"
                   /\ result' = IF op = "wait_for_completion"
                                THEN ReturnedValue(r.value)
                                ELSE ReturnedValue(handle)
              [] r.act = "sleep" ->
                   /\ pc' = "wait_sleep"
                   /\ result' = result
    /\ UNCHANGED <<op, streamVars, timeout, start_time, sleeps, lastSleep, srvStatus,
                   status0, execution_id, handle, args, httpOutcome, callerVars>>

\* time.sleep returning at once: no time passes between two polls
WaitSleep_ReturnsAtOnce ==
    /\ op \in WaitOps /\ pc = "wait_sleep"
    /\ lastSleep' = 0
    /\ sleeps' = sleeps + 1
    /\ pc' = "wait_check"
    /\ UNCHANGED <<op, result, streamVars, timeout, now, start_time, polls, lastGet,
                   srvStatus, polled, status0, execution_id, handle, args,
                   httpOutcome, callerVars>>

\* time.sleep(poll_interval): at least the interval
WaitSleep ==
    /\ op \in WaitOps /\ pc = "wait_sleep"
    /\ \E extra \in 0..MaxOversleep :
         /\ now' = now + poll_interval + extra
         /\ lastSleep' = poll_interval + extra
    /\ sleeps' = sleeps + 1
    /\ pc' = "wait_check"
    /\ UNCHANGED <<op, result, streamVars, timeout, start_time, polls, lastGet,
                   srvStatus, polled, status0, execution_id, handle, args,
                   httpOutcome, callerVars>>

\* the remote execution moves on: pending, running, then a terminal status
ServerAdvance ==
    /\ op \in CallOps /\ pc \notin {"returned", "raised"}
    /\ \/ srvStatus = "pending" /\ srvStatus' = "running"
       \/ srvStatus = "running" /\ srvStatus' \in TerminalStatuses
    /\ UNCHANGED <<op, pc, result, streamVars, timeout, now, start_time, polls, sleeps,
                   lastGet, lastSleep, polled, status0, execution_id, handle, args,
                   httpOutcome, callerVars>>

InitWait ==
    /\ op \in CallOps
    /\ result = NoResult
    /\ StreamIdle
    /\ now = 0 /\ start_time = 0 /\ polls = 0 /\ sleeps = 0
    /\ lastGet = 0 /\ lastSleep = 0
    /\ srvStatus \in Statuses
    /\ polled = None
    /\ status0 = ""
    /\ handle = None
    /\ CallerIdle /\ httpOutcome = NoResponse
    /\ IF op \in {"execute", "run"}
       THEN /\ args \in [wait : BOOLEAN, wait_timeout : Timeouts]
            /\ execution_id = ""
            /\ timeout = 0
            /\ pc = "call"
       ELSE /\ args = None
            /\ execution_id = "exec-1"
            /\ timeout \in (IF op = "wait_for_completion" THEN Timeouts ELSE {0})
            /\ pc = IF op = "wait_for_completion" THEN "wait_call" ELSE "call"

NextWait ==
    \/ Request
    \/ Get
    \/ ExecutePost
    \/ WaitEnter
    \/ WaitCheck
    \/ WaitPoll
    \/ WaitSleep
    \/ ServerAdvance

SpecWait == InitWait /\ [][NextWait]_vars

(***************************************************************************)
(* Properties of the poll loop, the handle binding and the transport.      *)
(***************************************************************************)
\* elapsed time since wait_for_completion recorded its start instant
Elapsed == now - start_time

\* the error wait_for_completion raises when it leaves the loop
DeadlineError == TimeoutError(timeout * 1000)

\* wait_for_completion was entered with the execution already terminal
TerminalAtCall == op \in WaitOps /\ status0 \in TerminalStatuses

\* the call ended by the poll-deadline TimeoutError
DeadlineRaised ==
    /\ op \in WaitOps /\ pc = "raised" /\ status0 # ""
    /\ result = Raised(DeadlineError)
    /\ (polls > 0 => ~polled.raised)

\* C5 as stated: on an execution already terminal at the call, for every
\* timeout value, wait_for_completion never sleeps and, unless its poll
\* fails, returns that execution after exactly one poll.
C5_TerminalFirstPollAnyTimeout ==
    TerminalAtCall =>
        /\ sleeps = 0
        /\ pc = "returned" => (polls = 1 /\ polled.value.status = status0)
        /\ pc = "raised" => (polls = 1 /\ polled.raised)

\* C5 amended: the same for every timeout greater than zero; with a timeout
\* of zero the loop body never runs.
C5_TerminalFirstPoll ==
    (TerminalAtCall /\ timeout > 0) =>
        /\ sleeps = 0
        /\ pc = "returned" => (polls = 1 /\ polled.value.status = status0)
        /\ pc = "raised" => (polls = 1 /\ polled.raised)

C5_Witness ==
    /\ op = "wait_for_completion" /\ status0 = "cancelled" /\ timeout > 0
    /\ pc = "returned" /\ polls = 1 /\ sleeps = 0
    /\ result = ReturnedValue(polled.value)

\* C6 as stated: when the execution never becomes terminal and no poll
\* fails, TimeoutError is raised at an elapsed time E with
\* T <= E < T + one poll interval, whatever the GETs took (the sleeps
\* lasting exactly one interval).
C6_DeadlineWithinOneInterval ==
    (DeadlineRaised /\ srvStatus \notin TerminalStatuses /\ lastSleep <= poll_interval)
        => /\ timeout * TicksPerSec <= Elapsed
           /\ Elapsed < timeout * TicksPerSec + poll_interval

\* C6 amended: T <= E, and E < T + the duration of the last GET + the
\* duration of the last sleep; when no poll was made (T = 0) the error is
\* raised at the first check.
C6_DeadlineBound ==
    (DeadlineRaised /\ srvStatus \notin TerminalStatuses)
        => /\ timeout * TicksPerSec <= Elapsed
           /\ polls > 0 => Elapsed < timeout * TicksPerSec + lastGet + lastSleep
           /\ polls = 0 => (timeout = 0 /\ Elapsed = 0)

C6_Witness ==
    /\ DeadlineRaised /\ srvStatus \notin TerminalStatuses
    /\ polls >= 2 /\ lastGet > 0 /\ lastSleep = poll_interval
    /\ Elapsed >= timeout * TicksPerSec + poll_interval

\* C7: when a poll of wait_for_completion raises, the wait has ended with
\* that same error: no sleep and no GET follows it, and the error is not
\* replaced by the poll-deadline TimeoutError.
C7_PollErrorPropagates ==
    (op \in WaitOps /\ polls > 0 /\ polled.raised)
        => /\ pc = "raised"
           /\ result = Raised(polled.error)
           /\ sleeps = polls - 1

C7_Witness ==
    /\ op = "wait_for_completion" /\ polls >= 2 /\ polled.raised
    /\ polled.error.cls = "RateLimitError"
    /\ pc = "raised"

\* C8: with wait=True, execute / run polls only after the POST succeeded,
\* returns the handle only after a poll observed a terminal status of the
\* new execution, and when the wait raises the caller gets that exception
\* and no handle.
C8_WaitBeforeReturn ==
    (op \in {"execute", "run"} /\ args.wait)
        => /\ (polls > 0 \/ pc \in {"wait_call", "wait_check", "wait_get", "wait_sleep"})
                => (handle # None /\ execution_id = handle.id)
           /\ pc = "returned"
                => /\ result = ReturnedValue(handle)
                   /\ polls >= 1 /\ ~polled.raised
                   /\ polled.value.status \in TerminalStatuses
                   /\ polled.value.id = handle.id
           /\ pc = "raised" => result.kind = "raise"
           /\ result.kind = "return" => pc = "returned"

C8_Witness ==
    /\ op = "run" /\ args.wait /\ pc = "returned"
    /\ polls >= 2 /\ status0 = "pending"
    /\ result = ReturnedValue(handle)

C8_WitnessRaise ==
    /\ op = "execute" /\ args.wait /\ pc = "raised"
    /\ handle # None /\ result = Raised(DeadlineError)

\* C9: _request either returns the parsed body or raises an error of the
\* SDK's hierarchy, whatever the HTTP call does.
C9_RequestClassified ==
    op = "_request" =>
        /\ pc = "raised" => (result.kind = "raise" /\ result.error.cls \in Classified)
        /\ pc = "returned" => result.kind = "return"

\* C10: every public operation, the streams included, ends normally or
\* raises an error of the SDK's hierarchy.
C10_PublicOperationsClassified ==
    pc = "raised" => (result.kind = "raise" /\ result.error.cls \in Classified)

(***************************************************************************)
(* Opening the stream, releasing the connection, the two variants.         *)
(***************************************************************************)
\* the stream-open request was answered with a status outside 200..299
OpenRefused == opened.t = "response" /\ ~is_success(opened)

\* C11: when the stream-open request is answered with a non-2xx status, the
\* first pull of stream / stream_async raises the generic BaleyUIError that
\* carries that status code and the reason phrase in its message; no body
\* line has been read and no event has been yielded.
C11_OpenStatusError ==
    OpenRefused =>
        /\ pc = "raised"
        /\ result.kind = "raise"
        /\ result.error.cls = "BaleyUIError"
        /\ result.error.status_code = Some(opened.status_code)
        /\ result.error.message = <<"Failed to stream execution: ", opened.reason_phrase>>
        /\ pos = 0
        /\ yielded = <<>>

C11_Witness ==
    /\ op = "stream" /\ OpenRefused /\ opened.status_code = 500
    /\ lines # <<>> /\ lines[1] \in EventLines
    /\ pc = "raised"

\* the iteration is over: the generator returned, raised, or was closed by
\* the consumer
IterationOver == pc \in {"done", "raised", "closed"}

\* C12: the connection is held exactly while the generator is inside its
\* with block (reading or suspended at a yield) and is released on every way
\* out: terminal event, sentinel, end of body, non-2xx status, an error while
\* reading or decoding, the consumer closing the generator early.  No state
\* has a finished or closed iteration with the connection open.
C12_ConnectionScoped ==
    /\ op \in StreamOps => (connOpen <=> pc \in {"reading", "yielded"})
    /\ IterationOver => ~connOpen

\* the consumer closed the generator after the first event, with lines unread
C12_Witness ==
    /\ op = "stream_async" /\ pc = "closed" /\ ~connOpen
    /\ Len(yielded) = 1 /\ pos < Len(lines)
    /\ yielded[1].type \notin TerminalTypes

\* the other variant of the streaming operation
OtherVariant(o) == IF o = "stream" THEN "stream_async" ELSE "stream"

\* the generator state a variant's loop body leaves after reading a line
AfterLine(r) ==
    CASE r.act = "skip" -> [pc |-> "reading", result |-> result, yielded |-> yielded]
      [] r.act = "yield" ->
            [pc |-> "yielded", result |-> result, yielded |-> Append(yielded, r.event)]
      [] r.act = "return" -> [pc |-> "done", result |-> Returned, yielded |-> yielded]
      [] r.act = "raise" -> [pc |-> "raised", result |-> Raised(r.error), yielded |-> yielded]

\* C14: stream and stream_async are observationally equivalent.  Every step
\* one variant takes (answering the open request, reading a line, resuming
\* after a yield) is the step the other variant's code takes from the same
\* state on the same input: the same event is yielded or none, the same
\* error is raised, reading stops at the same line, the iteration ends the
\* same way.
C14_VariantsEquivalent ==
    [][/\ pc = "created" =>
            LET r == OpenOf(OtherVariant(op), opened') IN
            IF r.raised THEN pc' = "raised" /\ result' = Raised(r.error) /\ ~connOpen'
                        ELSE pc' = "reading" /\ result' = result /\ connOpen'
       /\ Reads =>
            [pc |-> pc', result |-> result', yielded |-> yielded']
                = AfterLine(LineOf(OtherVariant(op), lines[pos + 1]))
       /\ (pc = "yielded" /\ pc' # "closed") =>
            (pc' = "done" <=> AfterYieldOf(OtherVariant(op), Last(yielded)))]_vars

\* the cooperative variant stopped at the sentinel after an event, with lines
\* left unread, as the blocking variant's code does on the same lines
C14_Witness ==
    /\ op = "stream_async" /\ pc = "done" /\ result = Returned
    /\ pos >= 2 /\ pos < Len(lines) /\ lines[pos] = DoneLine
    /\ Len(yielded) = 1

(***************************************************************************)
(* Order of the events handed to the consumer.                             *)
(***************************************************************************)
\* the lines read from the transport so far
LinesRead == SubSeq(lines, 1, pos)

\* C16: the events yielded are exactly the events carried by the event lines
\* read so far, in the order of the lines (reading stops at the first
\* terminating condition); a line without the data prefix yields nothing and
\* does not end the stream (after it the generator keeps reading, unless the
\* body ended or the transport failed); the event handed to the consumer is
\* the one of the last line read, so no line is consumed ahead of it.
C16_EventsInLineOrder ==
    /\ yielded = EventsOf(LinesRead)
    /\ pc = "yielded" =>
          /\ pos >= 1 /\ lines[pos] \in EventLines
          /\ Last(yielded) = EventIn(lines[pos])
    /\ (pos >= 1 /\ lines[pos] \in OtherLines) =>
          \/ pc = "reading"
          \/ pc = "done" /\ pos = Len(lines)
          \/ pc = "raised" /\ result = Raised(RawError("httpx.ReadError"))

\* two events around a line without the prefix, the second being handed over
C16_Witness ==
    /\ op = "stream_async" /\ pc = "yielded" /\ pos = 3
    /\ lines[1] \in ProgressLines /\ lines[2] \in OtherLines
    /\ lines[3] \in ProgressLines
    /\ Len(yielded) = 2 /\ yielded[1].index = 1 /\ yielded[2].index = 0

NonDecreasing(s) == \A j \in 1..(Len(s) - 1) : s[j] <= s[j + 1]

\* The server numbers the events of one execution's stream increasingly, so
\* the index fields of the event lines it sends never decrease (whatever
\* cursor the request named).
ServerSendsInOrder ==
    LET sent == SelectSeq(lines, LAMBDA l : l \in EventLines) IN
    NonDecreasing([j \in 1..Len(sent) |-> EventIn(sent[j]).index])

\* C17: the indices of the events the consumer observes within one streaming
\* session never decrease, given that the server sends its events in index
\* order: the generator neither reorders nor renumbers them.
C17_IndicesNonDecreasing ==
    ServerSendsInOrder => NonDecreasing([j \in 1..Len(yielded) |-> yielded[j].index])

C17_Witness ==
    /\ ServerSendsInOrder /\ pc = "done"
    /\ Len(yielded) = 3
    /\ yielded[1].index = 0 /\ yielded[2].index = 0 /\ yielded[3].index = 1

(***************************************************************************)
(* How wait_for_completion ends.                                           *)
(***************************************************************************)
\* wait_for_completion raised, and not because a poll failed: it left its
\* loop
LeftLoop ==
    /\ op \in WaitOps /\ pc = "raised" /\ status0 # ""
    /\ (polls > 0 => ~polled.raised)

\* C18: wait_for_completion raises its own TimeoutError only when the
\* deadline is reached (elapsed >= timeout) and no poll saw a terminal status
\* (every poll was followed by a sleep, the last snapshot is not terminal);
\* the error carries timeout * 1000, timeout being the value passed in.
C18_DeadlineErrorOnlyAtDeadline ==
    LeftLoop =>
        /\ result.kind = "raise"
        /\ result.error.cls = "TimeoutError"
        /\ result.error.timeout = timeout * 1000
        /\ Elapsed >= timeout * TicksPerSec
        /\ sleeps = polls
        /\ (polls > 0 => polled.value.status \notin TerminalStatuses)

C18_Witness ==
    /\ op = "wait_for_completion" /\ LeftLoop
    /\ timeout = 2 /\ polls >= 2
    /\ result.error.timeout = 2000

\* C19: whenever wait_for_completion returns normally, what it returns is
\* the snapshot fetched by the most recent GET of that call, of the execution
\* asked for, and its status is terminal (the status the server had at that
\* GET); it is never a pending or running snapshot.
C19_ReturnsLastSnapshot ==
    (op = "wait_for_completion" /\ pc = "returned") =>
        /\ polls >= 1
        /\ ~polled.raised
        /\ result = ReturnedValue(polled.value)
        /\ result.value.id = execution_id
        /\ result.value.status \in TerminalStatuses
        /\ result.value.status = srvStatus
        /\ sleeps = polls - 1

\* returned at the second poll, the execution having been pending at the call
C19_Witness ==
    /\ op = "wait_for_completion" /\ pc = "returned"
    /\ status0 = "pending" /\ polls = 2 /\ sleeps = 1
    /\ result.value.status = "cancelled"

(***************************************************************************)
(* The status-code mapping, stated on the response itself.                 *)
(***************************************************************************)
\* the members of the response body when it is a JSON object, none otherwise
BodyMembers(r) ==
    LET doc == json_loads(r.body) IN
    IF ~doc.raised /\ doc.value.jt = "object" THEN doc.value.members ELSE EmptyDict

\* the server's message: the body's error member, the reason phrase without
ServerMessage(r) ==
    IF "error" \in DOMAIN BodyMembers(r) THEN <<BodyMembers(r).error.s>>
    ELSE <<r.reason_phrase>>

\* the server's details, when the body has them
ServerDetails(r) ==
    IF "details" \in DOMAIN BodyMembers(r) THEN Some(BodyMembers(r).details.s)
    ELSE None

\* error e is the one the mapping table gives for response r
MappedError(e, r) ==
    CASE r.status_code = 400 ->
            /\ e.cls = "ValidationError"
            /\ e.message = ServerMessage(r) /\ e.details = ServerDetails(r)
      [] r.status_code = 401 ->
            e.cls = "AuthenticationError" /\ e.message = ServerMessage(r)
      [] r.status_code = 403 ->
            e.cls = "PermissionError" /\ e.message = ServerMessage(r)
      [] r.status_code = 404 ->
            e.cls = "NotFoundError" /\ {"resource", "resource_id"} \subseteq DOMAIN e
      [] r.status_code = 429 ->
            /\ e.cls = "RateLimitError"
            /\ (Truthy(r.retry_after) <=> e.retry_after # None)
      [] OTHER ->
            /\ e.cls = "BaleyUIError"
            /\ e.message = ServerMessage(r)
            /\ e.status_code = Some(r.status_code)
            /\ e.details = ServerDetails(r)

\* C13: for each status code of 400, 401, 403, 404, 429, 500, a response of
\* that code makes _request raise exactly the error of the mapping table
\* with its attached fields (message, details, resource, Retry-After value).
C13_StatusMapping ==
    (/\ op = "_request" /\ pc # "call"
     /\ httpOutcome.t = "response" /\ httpOutcome.status_code \in StatusCodes)
        => /\ pc = "raised"
           /\ MappedError(result.error, httpOutcome)

(***************************************************************************)
(* types.py, ExecutionHandle, and the closures execute / run bind to it.   *)
(* A caller makes execute / run calls (without wait), keeps the handles    *)
(* returned, and calls their accessors, any number of times.  Between two *)
(* calls the per-call state is reset; the clock is read from the start of  *)
(* the call.                                                               *)
(***************************************************************************)
\* the closures all reading the id of the client's latest execution
bound_execution_id_Latest(h, hs) == hs[Len(hs)].id

\* the execution_id the three lambdas of handle h captured: the local
\* variable of the execute / run call that built h
bound_execution_id(h, hs) == h.id

\* ExecutionHandle.wait's timeout argument: left out (None) or a number
HandleWaitArgs == {None} \cup {Some(t) : t \in Timeouts}

\* the caller calls flows.execute or blocks.run
CallExecute ==
    /\ pc = "idle" /\ Len(handles) < Len(ExecutionIdSeq)
    /\ op' \in {"execute", "run"}
    /\ args' \in [wait : {FALSE}, wait_timeout : Timeouts]
    /\ pc' = "call"
    /\ UNCHANGED <<result, streamVars, timeout, now, start_time, polls, sleeps,
                   lastGet, lastSleep, srvStatus, polled, status0, execution_id,
                   handle, httpOutcome, callerVars>>

\* handle.get_status(): executions.get(execution_id) is called
HandleGetStatus ==
    /\ pc = "idle"
    /\ \E i \in 1..Len(handles) :
         /\ used' = i
         /\ execution_id' = bound_execution_id(handles[i], handles)
    /\ op' = "get" /\ pc' = "call"
    /\ UNCHANGED <<result, streamVars, timeout, now, start_time, polls, sleeps,
                   lastGet, lastSleep, srvStatus, polled, status0, handle, args,
                   httpOutcome, handles, waitArg>>

\* handle.wait(t): executions.wait_for_completion(execution_id,
\* t or wait_timeout) is called
HandleWait ==
    /\ pc = "idle"
    /\ \E i \in 1..Len(handles), t \in HandleWaitArgs :
         /\ used' = i
         /\ waitArg' = t
         /\ execution_id' = bound_execution_id(handles[i], handles)
         /\ timeout' = handle_wait_timeout(t, handles[i].wait_timeout)
    /\ op' = "wait_for_completion" /\ pc' = "wait_call"
    /\ UNCHANGED <<result, streamVars, now, start_time, polls, sleeps, lastGet,
                   lastSleep, srvStatus, polled, status0, handle, args, httpOutcome,
                   handles>>

\* handle.stream(): executions.stream(execution_id) builds the generator
HandleStream ==
    /\ pc = "idle"
    /\ \E i \in 1..Len(handles) :
         /\ used' = i
         /\ execution_id' = bound_execution_id(handles[i], handles)
    /\ op' = "stream" /\ pc' = "created"
    /\ UNCHANGED <<result, streamVars, timeout, now, start_time, polls, sleeps,
                   lastGet, lastSleep, srvStatus, polled, status0, handle, args,
                   httpOutcome, handles, waitArg>>

\* the call is over and control is back with the caller, who keeps the
\* handle an execute / run call returned
CallReturns ==
    /\ pc \in {"returned", "raised", "done", "closed"}
    /\ handles' = IF op \in {"execute", "run"} /\ pc = "returned"
                  THEN Append(handles, result.value) ELSE handles
    /\ op' = "none" /\ pc' = "idle" /\ result' = NoResult
    /\ opened' = NoResponse /\ pos' = 0 /\ yielded' = <<>> /\ connOpen' = FALSE
    /\ timeout' = 0 /\ now' = 0 /\ start_time' = 0 /\ polls' = 0 /\ sleeps' = 0
    /\ lastGet' = 0 /\ lastSleep' = 0
    /\ polled' = None /\ status0' = "" /\ execution_id' = ""
    /\ handle' = None /\ args' = None /\ httpOutcome' = NoResponse
    /\ used' = 0 /\ waitArg' = None
    /\ UNCHANGED <<lines, srvStatus>>

InitHandle ==
    /\ op = "none" /\ pc = "idle" /\ result = NoResult
    /\ lines = <<EventLine("node_start", 0)>>
    /\ opened = NoResponse /\ pos = 0 /\ yielded = <<>> /\ connOpen = FALSE
    /\ timeout = 0 /\ now = 0 /\ start_time = 0 /\ polls = 0 /\ sleeps = 0
    /\ lastGet = 0 /\ lastSleep = 0
    /\ srvStatus \in Statuses
    /\ polled = None /\ status0 = "" /\ execution_id = ""
    /\ handle = None /\ args = None
    /\ CallerIdle /\ httpOutcome = NoResponse

NextHandle ==
    \/ CallExecute
    \/ HandleGetStatus
    \/ HandleWait
    \/ HandleStream
    \/ CallReturns
    \/ ExecutePost
    \/ Get
    \/ WaitEnter
    \/ WaitCheck
    \/ WaitPoll
    \/ WaitSleep
    \/ ServerAdvance
    \/ StreamFirstPull
    \/ StreamReadLine
    \/ StreamEndOfBody
    \/ StreamReadError
    \/ StreamResume
    \/ StreamAbandon

SpecHandle == InitHandle /\ [][NextHandle]_vars

\* an accessor of one of the caller's handles is running or has run
AccessorCalled == used \in 1..Len(handles)

\* C15: the handle execute / run builds carries the executionId of the POST's
\* response, and every accessor call on a handle h_i, whatever other handles
\* were created before or after it, fetches, polls or streams the execution
\* h_i.id: the id in use during the call, and the id of every snapshot the
\* call fetches or returns, is the POST's id of h_i.
C15_HandleBoundToItsId ==
    /\ (op \in {"execute", "run"} /\ handle # None) =>
          /\ httpOutcome.t = "response"
          /\ httpOutcome.body = Dumps(JObj([executionId |-> JStr(handle.id)]))
          /\ execution_id = handle.id
          /\ (pc = "returned" => result = ReturnedValue(handle))
    /\ \A i \in 1..Len(handles) : handles[i].id = ExecutionIdSeq[i]
    /\ used > 0 =>
          /\ AccessorCalled
          /\ execution_id = handles[used].id
          /\ (polls > 0 /\ ~polled.raised) => polled.value.id = handles[used].id
          /\ (op = "get" /\ pc = "returned") => result.value.id = handles[used].id

\* the first of two handles polled after the second was created
C15_Witness ==
    /\ Len(handles) = 2 /\ handles[1].id # handles[2].id
    /\ used = 1 /\ op = "wait_for_completion" /\ pc = "returned"
    /\ result.value.id = "exec-1"

\* C20: handle.wait(t) runs wait_for_completion with timeout t when t is a
\* number other than zero, and with the wait_timeout of the execute / run
\* call that built the handle when t is left out or zero; so wait(0) on a
\* handle with a positive wait_timeout polls, and gives up only once
\* wait_timeout seconds have passed.
C20_HandleWaitTimeout ==
    /\ (op \in {"execute", "run"} /\ handle # None) =>
          handle.wait_timeout = args.wait_timeout
    /\ (AccessorCalled /\ op = "wait_for_completion") =>
          /\ timeout = IF waitArg = None THEN handles[used].wait_timeout
                       ELSE IF waitArg.some = 0 THEN handles[used].wait_timeout
                       ELSE waitArg.some
          /\ (waitArg = Some(0) /\ handles[used].wait_timeout > 0 /\ LeftLoop) =>
                /\ polls >= 1
                /\ Elapsed >= handles[used].wait_timeout * TicksPerSec

\* wait(0) on a handle built with wait_timeout 2 polled twice and returned
C20_Witness ==
    /\ AccessorCalled /\ op = "wait_for_completion"
    /\ waitArg = Some(0) /\ handles[used].wait_timeout = 2
    /\ pc = "returned" /\ polls = 2

(***************************************************************************)
(* Termination of the poll loop.  Each GET and each sleep completes, and   *)
(* the loop's own steps are taken: weak fairness of the four steps of      *)
(* wait_for_completion.                                                    *)
(***************************************************************************)
SpecWaitFair ==
    /\ SpecWait
    /\ WF_vars(WaitEnter) /\ WF_vars(WaitCheck)
    /\ WF_vars(WaitPoll) /\ WF_vars(WaitSleep)

\* wait_for_completion is running
InWait == op \in WaitOps /\ pc \in {"wait_call", "wait_check", "wait_get", "wait_sleep"}

\* wait_for_completion is over: it returned or raised
WaitOver == pc \in {"returned", "raised"}

\* what holds at each position of the loop
LoopAccounting ==
    op \in WaitOps =>
        \* a GET is about to be issued only after a check found elapsed < timeout
        /\ pc = "wait_get" => (Elapsed < timeout * TicksPerSec /\ sleeps = polls)
        \* a sleep follows a poll that returned a snapshot that is not terminal
        /\ pc = "wait_sleep" =>
              /\ sleeps = polls - 1 /\ ~polled.raised
              /\ polled.value.status \notin TerminalStatuses
        /\ pc = "wait_check" => sleeps = polls
        \* one sleep per non-terminal poll, none after the last poll of a
        \* call that returned or failed in a poll
        /\ sleeps \in {polls - 1, polls}
        /\ sleeps > 0 => lastSleep >= poll_interval
        \* every poll but the last was followed by a sleep of at least one
        \* second, all within the deadline: at most timeout polls
        /\ polls <= timeout
        /\ timeout <= 0 => polls = 0
        \* leaving the loop reports TimeoutError whatever the server holds by then
        /\ LeftLoop => result = Raised(TimeoutError(timeout * 1000))

\* a GET is issued in this step
IssuesGet == polls' # polls

\* a sleep is taken in this step
Sleeps == sleeps' # sleeps

\* C21: for every timeout, with each GET and each sleep completing,
\* wait_for_completion terminates (it returns, raises TimeoutError, or
\* raises a poll's error); every GET comes right after a deadline check that
\* found elapsed < timeout, so none is issued once elapsed >= timeout and
\* none at all with timeout <= 0; a poll that is not terminal is followed by
\* exactly one sleep of (at least) one second and then by the next check; an
\* execution that turns terminal during the last sleep is reported as
\* TimeoutError.
C21_PollLoopTerminates ==
    /\ []LoopAccounting
    /\ [][/\ IssuesGet => (/\ pc = "wait_get" /\ polls' = polls + 1
                           /\ Elapsed < timeout * TicksPerSec)
          /\ Sleeps => (/\ pc = "wait_sleep" /\ sleeps' = sleeps + 1
                        /\ now' - now >= poll_interval /\ pc' = "wait_check"
                        /\ polls' = polls)]_vars
    /\ InWait ~> WaitOver

\* the execution turned terminal during the last sleep: the loop was left
\* with TimeoutError after two polls, the last snapshot still running
C21_Witness ==
    /\ op = "wait_for_completion" /\ LeftLoop
    /\ timeout = 2 /\ polls = 2 /\ sleeps = 2
    /\ polled.value.status = "running" /\ srvStatus = "completed"
    /\ result = Raised(TimeoutError(2000))

====
